---- MODULE Spec2Model ----
(***************************************************************************)
(* Physical memory map of package kexec (src/cmds/core/ip/tuntap_linux.go, *)
(* second half): MemoryMap, its Insert / FilterByType /                    *)
(* ToUEFIPayloadMemoryMap operations, and the adapters that build a map    *)
(* from a device tree, /sys/firmware/memmap, /proc/iomem and memblock.     *)
(*                                                                         *)
(* Addresses are uintptr values scaled down to 0..MaxAddr; arithmetic that *)
(* the code performs on uintptr / uint / uint64 wraps modulo AddrSpace.    *)
(***************************************************************************)
EXTENDS Integers, Sequences, FiniteSets, TLC

\* Largest address of the (scaled down) address width.
MaxAddr == 3
\* Largest number of items (nodes, lines, table entries) one adapter phase reads.
MaxItems == 3
\* Number of entry directories under the sysfs memmap root.
MaxDirs == 2

AddrSpace == MaxAddr + 1
Addr == 0..MaxAddr

\* uintptr / uint / uint64 wrap-around.
Wrap(x) == (x + AddrSpace) % AddrSpace

(***************************************************************************)
(* RangeType and the lookup tables.                                        *)
(***************************************************************************)
RangeRAM == "System RAM"
RangeDefault == "Default"
RangeACPI == "ACPI Tables"
RangeNVS == "ACPI Non-volatile Storage"
RangeReserved == "Reserved"

KnownTypes == {RangeRAM, RangeDefault, RangeACPI, RangeNVS, RangeReserved}

\* A label no table knows, standing for every such string.
Bogus == "Bogus"

\* sysfsToRangeType: ok is FALSE when the key is missing from the Go map.
sysfsToRangeType(data) ==
    CASE data = "System RAM" -> [ok |-> TRUE, typ |-> RangeRAM]
      [] data = "Default" -> [ok |-> TRUE, typ |-> RangeDefault]
      [] data = "ACPI Tables" -> [ok |-> TRUE, typ |-> RangeACPI]
      [] data = "ACPI Non-volatile Storage" -> [ok |-> TRUE, typ |-> RangeNVS]
      [] data = "Reserved" -> [ok |-> TRUE, typ |-> RangeReserved]
      [] data = "reserved" -> [ok |-> TRUE, typ |-> RangeReserved]
      [] OTHER -> [ok |-> FALSE, typ |-> ""]

UEFIPayloadTypeRAM == 1
UEFIPayloadTypeDefault == 2
UEFIPayloadTypeACPI == 3
UEFIPayloadTypeNVS == 4
UEFIPayloadTypeReserved == 5

\* rangeTypeToUEFIPayloadMemType, same convention as sysfsToRangeType.
rangeTypeToUEFIPayloadMemType(rt) ==
    CASE rt = RangeRAM -> [ok |-> TRUE, mt |-> UEFIPayloadTypeRAM]
      [] rt = RangeDefault -> [ok |-> TRUE, mt |-> UEFIPayloadTypeDefault]
      [] rt = RangeACPI -> [ok |-> TRUE, mt |-> UEFIPayloadTypeACPI]
      [] rt = RangeNVS -> [ok |-> TRUE, mt |-> UEFIPayloadTypeNVS]
      [] rt = RangeReserved -> [ok |-> TRUE, mt |-> UEFIPayloadTypeReserved]
      [] OTHER -> [ok |-> FALSE, mt |-> 0]

convertToUEFIPayloadMemType(rt) ==
    LET e == rangeTypeToUEFIPayloadMemType(rt)
    IN  IF ~e.ok THEN UEFIPayloadTypeReserved ELSE e.mt

(***************************************************************************)
(* Range: the half-open interval [Start, Start+Size).                      *)
(***************************************************************************)
End(r) == r.Start + r.Size

Overlaps(a, b) == a.Start < End(b) /\ b.Start < End(a)

\* RangeFromInterval(start, end): the range [start, end), its size computed
\* in the unsigned width.
RangeFromInterval(start, end) == [Start |-> start, Size |-> Wrap(end - start)]

\* Range.Minus: the pieces of a that b does not cover.
Minus(a, b) ==
    IF ~Overlaps(a, b) THEN <<[Start |-> a.Start, Size |-> a.Size]>>
    ELSE IF b.Start <= a.Start /\ End(a) <= End(b) THEN <<>>
    ELSE IF b.Start <= a.Start
         THEN <<[Start |-> End(b), Size |-> End(a) - End(b)]>>
    ELSE IF End(a) <= End(b)
         THEN <<[Start |-> a.Start, Size |-> b.Start - a.Start]>>
    ELSE <<[Start |-> a.Start, Size |-> b.Start - a.Start],
           [Start |-> End(b), Size |-> End(a) - End(b)]>>

TypedRange(r, typ) == [Start |-> r.Start, Size |-> r.Size, Type |-> typ]
RangeOf(tr) == [Start |-> tr.Start, Size |-> tr.Size]

\* The value of `last` before any Insert.
NoRange == [Start |-> 0, Size |-> 0, Type |-> "none"]

(***************************************************************************)
(* MemoryMap.                                                              *)
(***************************************************************************)
RemoveAt(s, i) == SubSeq(s, 1, i - 1) \o SubSeq(s, i + 1, Len(s))

\* sort.Slice by Start: not stable, so entries with equal Start may end in
\* any order.  The result is the set of the orders the sort can leave.
RECURSIVE SortTies(_)
SortTies(s) ==
    IF Len(s) = 0 THEN {<<>>}
    ELSE LET mins == {i \in 1..Len(s) : \A j \in 1..Len(s) : s[i].Start <= s[j].Start}
         IN  UNION {{<<s[i]>> \o t : t \in SortTies(RemoveAt(s, i))} : i \in mins}

SortByStart(s) ==
    IF \A i, j \in 1..Len(s) : i # j => s[i].Start # s[j].Start
    THEN {[k \in 1..Len(s) |->
             s[CHOOSE i \in 1..Len(s) :
                 Cardinality({j \in 1..Len(s) : s[j].Start < s[i].Start}) = k - 1]]}
    ELSE SortTies(s)

\* The pieces of q that survive r, with q's type.
RetypeAll(q, r) ==
    LET split == Minus(q, r)
    IN  [k \in 1..Len(split) |-> TypedRange(split[k], r.Type)]

\* The surviving pieces of q, never split.
SplitEntryWhole(q, r) ==
    IF Overlaps(q, r) THEN <<>> ELSE <<q>>

SplitEntry(q, r) ==
    LET split == Minus(q, r)
    IN  [k \in 1..Len(split) |-> TypedRange(split[k], q.Type)]

\* The loop of Insert over the existing entries.
RECURSIVE RemovePoints(_, _)
RemovePoints(m, r) ==
    IF Len(m) = 0 THEN <<>>
    ELSE SplitEntry(Head(m), r) \o RemovePoints(Tail(m), r)

NewMapKeepAll(m, r) == Append(m, r)

\* newMap just before newMap.sort().
NewMap(m, r) == Append(RemovePoints(m, r), r)

InsertUnsorted(m, r) == {NewMap(m, r)}

\* MemoryMap.Insert: every map the call can leave in *m.
Insert(m, r) == SortByStart(NewMap(m, r))

FilterByTypeAll(m, typ) == [i \in 1..Len(m) |-> RangeOf(m[i])]

RECURSIVE FilterByType(_, _)
FilterByType(m, typ) ==
    IF Len(m) = 0 THEN <<>>
    ELSE (IF Head(m).Type = typ THEN <<RangeOf(Head(m))>> ELSE <<>>)
         \o FilterByType(Tail(m), typ)

PayloadEndExclusive(entry) == Wrap(entry.Start + entry.Size)

\* End of a payload entry, in uint64 arithmetic.
PayloadEnd(entry) == Wrap(entry.Start + entry.Size - 1)

ToUEFIPayloadMemoryMap(m) ==
    [i \in 1..Len(m) |-> [Start |-> m[i].Start,
                          End |-> PayloadEnd(m[i]),
                          Type |-> convertToUEFIPayloadMemType(m[i].Type)]]

(***************************************************************************)
(* Map predicates used by the properties.                                  *)
(***************************************************************************)
Contains(r, a) == r.Start <= a /\ a < End(r)

\* Positions of the entries of m that cover address a.
Covering(m, a) == {i \in 1..Len(m) : Contains(m[i], a)}

TypesAt(m, a) == {m[i].Type : i \in Covering(m, a)}

SortedByStart(m) == \A i \in 1..(Len(m) - 1) : m[i].Start < m[i + 1].Start

NonOverlapping(m) ==
    \A i, j \in 1..Len(m) : i # j => ~Overlaps(m[i], m[j])

(***************************************************************************)
(* State.                                                                  *)
(***************************************************************************)
VARIABLES
    adapter,  \* "none" (the map is driven through its methods) or the adapter running
    pc,       \* position of the adapter
    mm,       \* the MemoryMap under construction
    last,     \* the TypedRange given to the latest Insert
    op,       \* the latest operation on the map (of a text adapter: "skip" when
              \* the line it read last led to no Insert)
    arg,      \* the type given to the latest FilterByType
    result,   \* what the latest FilterByType / ToUEFIPayloadMemoryMap returned
    nread,    \* number of items (nodes, table entries, lines) the adapter has read
    inp,      \* the item the adapter read last
    ranges,   \* memoryMapFromEFI: the ranges map, keyed by entry directory
    err,      \* the error the adapter returns, "" for nil
    ref,      \* the map the same adapter builds from the usable lines alone
    ramCov,   \* addresses of the RAM ranges the adapter has placed
    resvCov,  \* addresses of the Reserved ranges the adapter has inserted
    minQ,     \* Minus on its own: the entry q of Insert's loop
    minR,     \* Minus on its own: the TypedRange r being inserted
    pieces,   \* what q.Range.Minus(r.Range) left of q, with q's type
    again     \* for each piece, what Minus(r.Range) leaves of it

vars == <<adapter, pc, mm, last, op, arg, result, nread, inp, ranges, err, ref,
          ramCov, resvCov, minQ, minR, pieces, again>>

minusVars == <<minQ, minR, pieces, again>>

adapterVars == <<nread, inp, ranges, err, ref, ramCov, resvCov>>
apiVars == <<arg, result>>

(***************************************************************************)
(* What the adapters read.                                                 *)
(***************************************************************************)
\* A numeric field of a text source: ok is FALSE when strconv.ParseUint
\* rejects it.
Tok(a) == [ok |-> TRUE, v |-> a]
BadTok == [ok |-> FALSE, v |-> 0]

ParseUint(tok) == [err |-> ~tok.ok, v |-> tok.v]

NoInput == [kind |-> "none"]

\* A line of /proc/iomem: nels parts around ":", the first of them naddrs
\* parts around "-", the second the label.
IOMemLine(nels, naddrs, start, end, typ) ==
    [kind |-> "iomem", nels |-> nels, naddrs |-> naddrs, start |-> start,
     end |-> end, typ |-> typ]

IOMemLabels == {RangeRAM, "reserved", Bogus}

\* Resource lines start <= end as the kernel prints them, and one malformed
\* line of each kind.
IOMemLines ==
    {l \in [kind : {"iomem"}, nels : {2}, naddrs : {2},
            start : {Tok(a) : a \in Addr}, end : {Tok(a) : a \in Addr},
            typ : IOMemLabels] :
        l.start.v <= l.end.v}
    \cup {IOMemLine(1, 2, Tok(0), Tok(1), RangeRAM),
          IOMemLine(3, 2, Tok(0), Tok(1), RangeRAM),
          IOMemLine(2, 1, Tok(0), Tok(1), RangeRAM),
          IOMemLine(2, 3, Tok(0), Tok(1), RangeRAM),
          IOMemLine(2, 2, BadTok, Tok(1), RangeRAM),
          IOMemLine(2, 2, Tok(0), BadTok, RangeRAM)}

\* A line of a memblock file: nels parts around ":", the second of them
\* naddrs parts around "..".
MemblockLine(nels, naddrs, start, end) ==
    [kind |-> "memblock", nels |-> nels, naddrs |-> naddrs, start |-> start,
     end |-> end]

MemblockLines ==
    {l \in [kind : {"memblock"}, nels : {2}, naddrs : {2},
            start : {Tok(a) : a \in Addr}, end : {Tok(a) : a \in Addr}] :
        l.start.v <= l.end.v}
    \cup {MemblockLine(1, 2, Tok(0), Tok(1)),
          MemblockLine(3, 2, Tok(0), Tok(1)),
          MemblockLine(2, 1, Tok(0), Tok(1)),
          MemblockLine(2, 3, Tok(0), Tok(1)),
          MemblockLine(2, 2, BadTok, Tok(1)),
          MemblockLine(2, 2, Tok(0), BadTok)}

\* A reg property (or a reservation-table entry): absent, malformed, or a
\* region that lies inside the address space; the regions of size 0 are the
\* ones at addresses 0 and 1.
Regions ==
    {g \in [found : {TRUE}, bad : {FALSE}, Start : Addr, Size : 0..MaxAddr] :
        g.Start + g.Size <= AddrSpace /\ (g.Size = 0 => g.Start <= 1)}

NoReg == [found |-> FALSE, bad |-> FALSE, Start |-> 0, Size |-> 0]
BadReg == [found |-> TRUE, bad |-> TRUE, Start |-> 0, Size |-> 0]

Regs == Regions \cup {NoReg, BadReg}

\* A device-tree node: device_type is "" when the property is missing.
FDTNodes ==
    {[kind |-> "node", device_type |-> "memory", reg |-> g] : g \in Regs}
    \cup {[kind |-> "node", device_type |-> d, reg |-> g] :
            d \in {"cpu", ""}, g \in {NoReg, BadReg, CHOOSE x \in Regions : x.Size > 0}}

Dirs == 1..MaxDirs

\* Addresses found in the sysfs start and end files.
EFIAddr == {0, 1, MaxAddr}
EFILabels == {RangeRAM, Bogus}

\* The zero value of memRange, with the files seen so far and the label read.
NoMemRange == [seen |-> {}, start |-> 0, end |-> 0, typ |-> "", label |-> ""]
NoRanges == [d \in Dirs |-> NoMemRange]

\* Ranges a caller of Insert may pass: non-empty and inside the address space.
ValidRanges ==
    {r \in [Start : Addr, Size : 1..MaxAddr] : End(r) <= AddrSpace}

\* Types of the ranges inserted: any type for the first range, and RAM,
\* Reserved or an unknown label for the ranges laid over it.
AllTypes == KnownTypes \cup {Bogus}
InsertTypes(m) == IF Len(m) = 0 THEN AllTypes ELSE {RangeRAM, RangeReserved, Bogus}

Init ==
    /\ adapter = "none"
    /\ pc = "api"
    /\ mm = <<>>
    /\ last = NoRange
    /\ op = "init"
    /\ arg = ""
    /\ result = <<>>
    /\ nread = 0
    /\ inp = NoInput
    /\ ranges = NoRanges
    /\ err = ""
    /\ ref = <<>>
    /\ ramCov = {}
    /\ resvCov = {}
    /\ minQ = NoRange
    /\ minR = NoRange
    /\ pieces = <<>>
    /\ again = <<>>

DoInsert ==
    /\ pc = "api"
    /\ op \in {"init", "insert"}
    /\ \E r \in ValidRanges, t \in InsertTypes(mm) :
          /\ mm' \in Insert(mm, TypedRange(r, t))
          /\ last' = TypedRange(r, t)
    /\ op' = "insert"
    /\ UNCHANGED <<minusVars, adapter, pc, arg, result, adapterVars>>

DoFilterByType ==
    /\ pc = "api"
    /\ op \in {"init", "insert"}
    /\ \E t \in AllTypes :
          /\ arg' = t
          /\ result' = FilterByType(mm, t)
    /\ op' = "filter"
    /\ UNCHANGED <<minusVars, adapter, pc, mm, last, adapterVars>>

DoToUEFIPayloadMemoryMap ==
    /\ pc = "api"
    /\ op \in {"init", "insert"}
    /\ result' = ToUEFIPayloadMemoryMap(mm)
    /\ op' = "project"
    /\ UNCHANGED <<minusVars, adapter, pc, mm, last, arg, adapterVars>>

Next == DoInsert \/ DoFilterByType \/ DoToUEFIPayloadMemoryMap

Spec == Init /\ [][Next]_vars

(***************************************************************************)
(* The adapters.  Each reads its source item by item; the items are chosen *)
(* by the environment, at most MaxItems of them per run.                   *)
(***************************************************************************)
Points(r) == {a \in Addr : Contains(r, a)}

\* The map `ref` after one more usable range tr, where the adapter's own run
\* went from cur to got by inserting curtr (NoRange: by inserting nothing).
\* sort.Slice may order entries of equal Start either way: the reference
\* run orders them as the adapter's own run did whenever that is one of its
\* outcomes, as it is when both insert the same range into the same map.
RefInsert(m, tr, cur, curtr, got) ==
    IF m = cur /\ tr = curtr THEN got
    ELSE IF got \in Insert(m, tr) THEN got
    ELSE CHOOSE x \in Insert(m, tr) : TRUE

\* The adapter returns nil and an error: its locals are gone.
Fail(e) ==
    /\ pc' = "failed"
    /\ err' = e
    /\ mm' = <<>>
    /\ last' = NoRange
    /\ nread' = 0
    /\ inp' = NoInput
    /\ ranges' = NoRanges
    /\ ref' = <<>>
    /\ ramCov' = {}
    /\ resvCov' = {}
    /\ UNCHANGED <<minusVars, adapter, op, apiVars>>

\* rangeType of memoryMapFromIOMem.
rangeType(s) == IF s = "reserved" THEN RangeReserved ELSE s

IOMemRangeExclusiveEnd(start, end) == RangeFromInterval(start, end)

\* The Range of an iomem line whose end is inclusive.
IOMemRange(start, end) == RangeFromInterval(start, Wrap(end + 1))

IOMemEntryKeepEmpty(line) ==
    IF line.nels # 2 \/ line.naddrs # 2 \/ ParseUint(line.start).err
       \/ ParseUint(line.end).err
    THEN [skip |-> TRUE, tr |-> NoRange]
    ELSE [skip |-> FALSE,
          tr |-> TypedRange(IOMemRange(ParseUint(line.start).v, ParseUint(line.end).v),
                            rangeType(line.typ))]

\* The body of the scan loop of memoryMapFromIOMem: skip is TRUE where the
\* code continues without Insert.
IOMemEntry(line) ==
    IF line.nels # 2 THEN [skip |-> TRUE, tr |-> NoRange]
    ELSE IF line.naddrs # 2 THEN [skip |-> TRUE, tr |-> NoRange]
    ELSE LET start == ParseUint(line.start)
             end == ParseUint(line.end)
         IN  IF start.err THEN [skip |-> TRUE, tr |-> NoRange]
             ELSE IF end.err THEN [skip |-> TRUE, tr |-> NoRange]
             ELSE IF start.v = end.v THEN [skip |-> TRUE, tr |-> NoRange]
             ELSE [skip |-> FALSE,
                   tr |-> TypedRange(IOMemRange(start.v, end.v), rangeType(line.typ))]

\* A line is usable when it has the two fields, the two addresses parse and
\* start differs from end.
Usable(line) ==
    /\ line.nels = 2
    /\ line.naddrs = 2
    /\ line.start.ok
    /\ line.end.ok
    /\ line.start.v # line.end.v

IOMemScan ==
    /\ adapter = "iomem"
    /\ pc = "scan"
    /\ nread < MaxItems
    /\ \E line \in IOMemLines :
          LET e == IOMemEntry(line) IN
          /\ inp' = line
          /\ IF e.skip
             THEN /\ UNCHANGED <<mm, last>>
                  /\ op' = "skip"
             ELSE /\ mm' \in Insert(mm, e.tr)
                  /\ last' = e.tr
                  /\ op' = "insert"
          /\ ref' = IF Usable(line)
                    THEN RefInsert(ref, TypedRange(IOMemRange(line.start.v, line.end.v),
                                                   rangeType(line.typ)),
                                   mm, e.tr, mm')
                    ELSE ref
    /\ nread' = nread + 1
    /\ UNCHANGED <<minusVars, adapter, pc, apiVars, ranges, err, ramCov, resvCov>>

IOMemEOF ==
    /\ adapter = "iomem"
    /\ pc = "scan"
    /\ pc' = "done"
    /\ UNCHANGED <<minusVars, adapter, mm, last, op, apiVars, adapterVars>>

\* b.Err() is not nil: the adapter returns nil and the error.
IOMemScanError ==
    /\ adapter = "iomem"
    /\ pc = "scan"
    /\ Fail("scan")

\* rangeFromMemblockLine: nil is TRUE where the code returns nil.
rangeFromMemblockLine(line) ==
    IF line.nels # 2 THEN [nil |-> TRUE, r |-> RangeOf(NoRange)]
    ELSE IF line.naddrs # 2 THEN [nil |-> TRUE, r |-> RangeOf(NoRange)]
    ELSE LET start == ParseUint(line.start)
             end == ParseUint(line.end)
         IN  IF start.err THEN [nil |-> TRUE, r |-> RangeOf(NoRange)]
             ELSE IF end.err THEN [nil |-> TRUE, r |-> RangeOf(NoRange)]
             ELSE IF start.v = end.v THEN [nil |-> TRUE, r |-> RangeOf(NoRange)]
             ELSE [nil |-> FALSE, r |-> RangeFromInterval(start.v, Wrap(end.v + 1))]

\* One line of a memblock stream, inserted with the type of the stream.
MemblockStep(typ) ==
    /\ nread < MaxItems
    /\ \E line \in MemblockLines :
          LET r == rangeFromMemblockLine(line) IN
          /\ inp' = line
          /\ IF r.nil
             THEN /\ UNCHANGED <<mm, last, ramCov, resvCov>>
                  /\ op' = "skip"
             ELSE /\ mm' \in Insert(mm, TypedRange(r.r, typ))
                  /\ last' = TypedRange(r.r, typ)
                  /\ op' = "insert"
                  /\ ramCov' = IF typ = RangeRAM THEN ramCov \cup Points(r.r) ELSE ramCov
                  /\ resvCov' = IF typ = RangeReserved THEN resvCov \cup Points(r.r)
                                ELSE resvCov
          /\ ref' = IF Usable(line)
                    THEN RefInsert(ref, TypedRange(RangeFromInterval(line.start.v,
                                                        Wrap(line.end.v + 1)), typ),
                                   mm, IF r.nil THEN NoRange ELSE TypedRange(r.r, typ),
                                   mm')
                    ELSE ref
    /\ nread' = nread + 1
    /\ UNCHANGED <<minusVars, adapter, pc, apiVars, ranges, err>>

MemblockMemory ==
    /\ adapter = "memblock"
    /\ pc = "memory"
    /\ MemblockStep(RangeRAM)

MemblockMemoryEOF ==
    /\ adapter = "memblock"
    /\ pc = "memory"
    /\ pc' = "reserved"
    /\ UNCHANGED <<minusVars, adapter, mm, last, op, apiVars, adapterVars>>

MemblockReserved ==
    /\ adapter = "memblock"
    /\ pc = "reserved"
    /\ MemblockStep(RangeReserved)

MemblockReservedEOF ==
    /\ adapter = "memblock"
    /\ pc = "reserved"
    /\ pc' = "done"
    /\ UNCHANGED <<minusVars, adapter, mm, last, op, apiVars, adapterVars>>

MemblockScanError ==
    /\ adapter = "memblock"
    /\ pc \in {"memory", "reserved"}
    /\ Fail("scan")

\* addMemory, called by the walk from the root node, on a node it skips
\* or whose reg it appends.
FDTAddMemory ==
    /\ adapter = "fdt"
    /\ pc = "memory"
    /\ nread < MaxItems
    /\ \E n \in FDTNodes :
          /\ ~(n.device_type = "memory" /\ n.reg.found /\ n.reg.bad)
          /\ IF n.device_type # "memory" \/ ~n.reg.found
             THEN UNCHANGED <<mm, ramCov>>
             ELSE /\ mm' = Append(mm, TypedRange(n.reg, RangeRAM))
                  /\ ramCov' = ramCov \cup Points(n.reg)
    /\ nread' = nread + 1
    /\ UNCHANGED <<minusVars, adapter, pc, last, op, apiVars, inp, ranges, err, ref, resvCov>>

\* addMemory on a memory node whose reg AsRegion rejects.
FDTAddMemoryError ==
    /\ adapter = "fdt"
    /\ pc = "memory"
    /\ nread < MaxItems
    /\ \E n \in FDTNodes : n.device_type = "memory" /\ n.reg.found /\ n.reg.bad
    /\ Fail("region")

\* The root walk is over and the tree has a node named reserved-memory.
FDTReservedFound ==
    /\ adapter = "fdt"
    /\ pc = "memory"
    /\ pc' = "reserved"
    /\ UNCHANGED <<minusVars, adapter, mm, last, op, apiVars, adapterVars>>

\* The root walk is over and the tree has no such node.
FDTReservedNotFound ==
    /\ adapter = "fdt"
    /\ pc = "memory"
    /\ pc' = "table"
    /\ UNCHANGED <<minusVars, adapter, mm, last, op, apiVars, adapterVars>>

reserveMemoryAppend(m, reg) == {Append(m, TypedRange(reg, RangeReserved))}

\* The Insert of reserveMemory.
reserveMemoryInsert(m, reg) == Insert(m, TypedRange(reg, RangeReserved))

\* reserveMemory, called by the walk from the reserved-memory node, on a
\* node it skips or whose reg it inserts.
FDTReserveMemory ==
    /\ adapter = "fdt"
    /\ pc = "reserved"
    /\ nread < MaxItems
    /\ \E n \in FDTNodes :
          /\ ~(n.reg.found /\ n.reg.bad)
          /\ IF ~n.reg.found
             THEN UNCHANGED <<mm, last, resvCov>>
             ELSE /\ mm' \in reserveMemoryInsert(mm, n.reg)
                  /\ last' = TypedRange(n.reg, RangeReserved)
                  /\ resvCov' = resvCov \cup Points(n.reg)
    /\ nread' = nread + 1
    /\ UNCHANGED <<minusVars, adapter, pc, op, apiVars, inp, ranges, err, ref, ramCov>>

\* reserveMemory on a node whose reg AsRegion rejects.
FDTReserveMemoryError ==
    /\ adapter = "fdt"
    /\ pc = "reserved"
    /\ nread < MaxItems
    /\ \E n \in FDTNodes : n.reg.found /\ n.reg.bad
    /\ Fail("region")

FDTReservedWalked ==
    /\ adapter = "fdt"
    /\ pc = "reserved"
    /\ pc' = "table"
    /\ UNCHANGED <<minusVars, adapter, mm, last, op, apiVars, adapterVars>>

\* The loop over fdt.ReserveEntries.
FDTReserveEntry ==
    /\ adapter = "fdt"
    /\ pc = "table"
    /\ nread < MaxItems
    /\ \E g \in Regions :
          /\ mm' \in Insert(mm, TypedRange(g, RangeReserved))
          /\ last' = TypedRange(g, RangeReserved)
          /\ resvCov' = resvCov \cup Points(g)
    /\ nread' = nread + 1
    /\ UNCHANGED <<minusVars, adapter, pc, op, apiVars, inp, ranges, err, ref, ramCov>>

FDTReturn ==
    /\ adapter = "fdt"
    /\ pc = "table"
    /\ pc' = "done"
    /\ UNCHANGED <<minusVars, adapter, mm, last, op, apiVars, adapterVars>>

efiTypeVerbatim(data) == data

\* The type the walker stores for the content of a type file.
efiType(data) ==
    LET e == sysfsToRangeType(data)
    IN  IF ~e.ok THEN RangeReserved ELSE e.typ

\* The walker of memoryMapFromEFI on a start, end or type file that
\* filepath.Walk has not visited yet and whose content it accepts.
EFIWalkFile ==
    /\ adapter = "efi"
    /\ pc = "walk"
    /\ \E dir \in Dirs, base \in {"start", "end", "type"} :
          /\ base \notin ranges[dir].seen
          /\ LET r == ranges[dir] IN
             IF base = "type"
             THEN \E data \in EFILabels :
                     ranges' = [ranges EXCEPT ![dir] =
                                   [r EXCEPT !.typ = efiType(data), !.label = data,
                                             !.seen = @ \cup {base}]]
             ELSE \E data \in {Tok(a) : a \in EFIAddr} :
                     LET v == ParseUint(data) IN
                     /\ ~v.err
                     /\ ranges' = [ranges EXCEPT ![dir] =
                                      IF base = "start"
                                      THEN [r EXCEPT !.start = v.v, !.seen = @ \cup {base}]
                                      ELSE [r EXCEPT !.end = v.v, !.seen = @ \cup {base}]]
    /\ UNCHANGED <<minusVars, adapter, pc, mm, last, op, apiVars, nread, inp, err, ref,
                   ramCov, resvCov>>

\* The walker on a start or end file that strconv.ParseUint rejects.
EFIParseError ==
    /\ adapter = "efi"
    /\ pc = "walk"
    /\ \E dir \in Dirs, base \in {"start", "end"} :
          base \notin ranges[dir].seen /\ ParseUint(BadTok).err
    /\ Fail("parse")

\* The walker on a file of another name, on a file it cannot read, or
\* called with an error.
EFIWalkError ==
    /\ adapter = "efi"
    /\ pc = "walk"
    /\ \E e \in {"unexpected file", "read", "walk"} : Fail(e)

\* The Range of an entry directory, whose end is inclusive.
EFIRange(r) == RangeFromInterval(r.start, Wrap(r.end + 1))

\* The keys of the Go map ranges: the directories a file was read in.
EFIKeys == {d \in Dirs : ranges[d].seen # {}}

RECURSIVE EFIEntries(_)
EFIEntries(ds) ==
    IF ds = {} THEN <<>>
    ELSE LET d == CHOOSE x \in ds : TRUE
         IN  <<TypedRange(EFIRange(ranges[d]), ranges[d].typ)>> \o EFIEntries(ds \ {d})

\* The walk is over: one entry per key of ranges, sorted by Start.
EFIBuild ==
    /\ adapter = "efi"
    /\ pc = "walk"
    /\ mm' \in SortByStart(EFIEntries(EFIKeys))
    /\ pc' = "done"
    /\ UNCHANGED <<minusVars, adapter, last, op, apiVars, adapterVars>>

Adapters == {"fdt", "efi", "iomem", "memblock"}

InitAdapters ==
    /\ adapter \in Adapters
    /\ pc = (CASE adapter = "fdt" -> "memory"
               [] adapter = "efi" -> "walk"
               [] adapter = "iomem" -> "scan"
               [] adapter = "memblock" -> "memory")
    /\ mm = <<>>
    /\ last = NoRange
    /\ op = "init"
    /\ arg = ""
    /\ result = <<>>
    /\ nread = 0
    /\ inp = NoInput
    /\ ranges = NoRanges
    /\ err = ""
    /\ ref = <<>>
    /\ ramCov = {}
    /\ resvCov = {}
    /\ minQ = NoRange
    /\ minR = NoRange
    /\ pieces = <<>>
    /\ again = <<>>

NextAdapters ==
    \/ IOMemScan \/ IOMemEOF \/ IOMemScanError
    \/ MemblockMemory \/ MemblockMemoryEOF \/ MemblockReserved
    \/ MemblockReservedEOF \/ MemblockScanError
    \/ FDTAddMemory \/ FDTAddMemoryError \/ FDTReservedFound \/ FDTReservedNotFound
    \/ FDTReserveMemory \/ FDTReserveMemoryError \/ FDTReservedWalked
    \/ FDTReserveEntry \/ FDTReturn
    \/ EFIWalkFile \/ EFIParseError \/ EFIWalkError \/ EFIBuild

SpecAdapters == InitAdapters /\ [][NextAdapters]_vars

(***************************************************************************)
(* Minus on its own, as the loop of Insert calls it: one entry q, one      *)
(* inserted range r, both anywhere in the address space and of any size.   *)
(***************************************************************************)
Intervals == {x \in [Start : Addr, Size : 0..AddrSpace] : End(x) <= AddrSpace}

InitMinus ==
    /\ adapter = "none"
    /\ pc = "minus"
    /\ mm = <<>>
    /\ last = NoRange
    /\ op = "init"
    /\ arg = ""
    /\ result = <<>>
    /\ nread = 0
    /\ inp = NoInput
    /\ ranges = NoRanges
    /\ err = ""
    /\ ref = <<>>
    /\ ramCov = {}
    /\ resvCov = {}
    /\ minQ \in {TypedRange(x, t) : x \in Intervals, t \in {RangeRAM, RangeReserved}}
    /\ minR \in {TypedRange(x, RangeReserved) : x \in Intervals}
    /\ pieces = <<>>
    /\ again = <<>>

\* split := q.Range.Minus(r.Range), each piece with q's type.
DoMinus ==
    /\ pc = "minus"
    /\ pieces' = SplitEntry(minQ, minR)
    /\ pc' = "split"
    /\ UNCHANGED <<adapter, mm, last, op, apiVars, adapterVars, minQ, minR, again>>

\* The same r subtracted from each piece, as a second Insert of r does.
DoMinusAgain ==
    /\ pc = "split"
    /\ again' = [k \in 1..Len(pieces) |-> SplitEntry(pieces[k], minR)]
    /\ pc' = "again"
    /\ UNCHANGED <<adapter, mm, last, op, apiVars, adapterVars, minQ, minR, pieces>>

NextMinus == DoMinus \/ DoMinusAgain

SpecMinus == InitMinus /\ [][NextMinus]_vars

\* C1: starting from an empty map, after every Insert of a non-empty range
\* no two entries overlap and the entries are sorted ascending by Start.
C1_SortedNonOverlapping ==
    adapter = "none" => SortedByStart(mm) /\ NonOverlapping(mm)

\* An Insert whose range landed in the middle of the map, between two others.
C1_Witness ==
    /\ op = "insert"
    /\ Len(mm) >= 3
    /\ \E i \in 2..(Len(mm) - 1) : mm[i] = last

\* C2: after Insert(r) the map holds r unchanged, every address inside r is
\* covered by r and by no other entry, and every address outside r keeps the
\* type (or the lack of cover) it had before the call.
C2_LastInsertWins ==
    [][op' = "insert" =>
        LET r == last' IN
        /\ \E i \in 1..Len(mm') : mm'[i] = r
        /\ \A a \in Addr :
              IF Contains(r, a)
              THEN /\ Cardinality(Covering(mm', a)) = 1
                   /\ \A i \in Covering(mm', a) : mm'[i] = r
              ELSE /\ TypesAt(mm', a) = TypesAt(mm, a)
                   /\ Cardinality(Covering(mm', a)) = Cardinality(Covering(mm, a))
      ]_vars

\* The latest Insert cut into an entry of another type: that entry now ends
\* where the inserted range starts.
C2_Witness ==
    /\ op = "insert"
    /\ \E i \in 2..Len(mm) :
          /\ mm[i] = last
          /\ mm[i - 1].Type # last.Type
          /\ End(mm[i - 1]) = last.Start
          /\ last.Size > 1

\* C3: Insert of r over an entry q that r fully contains leaves no piece of
\* q; Insert of r strictly inside q replaces q by [q.start, r.start) and
\* [r.end, q.end) of q's type on both sides of r; an entry of r's type that
\* abuts r stays a separate entry.
C3_ContainSplitNoMerge ==
    [][op' = "insert" =>
        LET r == last' IN
        \A k \in 1..Len(mm) :
            LET q == mm[k] IN
            /\ (r.Start <= q.Start /\ End(q) <= End(r)) =>
                  \A j \in 1..Len(mm') : Overlaps(mm'[j], q) => mm'[j] = r
            /\ (q.Start < r.Start /\ End(r) < End(q)) =>
                  /\ Len(mm') = Len(mm) + 2
                  /\ \E i \in 2..(Len(mm') - 1) :
                        /\ mm'[i] = r
                        /\ mm'[i - 1] = [Start |-> q.Start,
                                         Size |-> r.Start - q.Start,
                                         Type |-> q.Type]
                        /\ mm'[i + 1] = [Start |-> End(r),
                                         Size |-> End(q) - End(r),
                                         Type |-> q.Type]
            /\ (q.Type = r.Type /\ (End(q) = r.Start \/ End(r) = q.Start)) =>
                  \E i, j \in 1..Len(mm') :
                      i # j /\ mm'[i] = q /\ mm'[j] = r
      ]_vars

\* The latest Insert split an entry of another type in two, and the entry
\* after the split abuts an entry of its own type.
C3_Witness ==
    /\ op = "insert"
    /\ Len(mm) >= 4
    /\ \E i \in 2..(Len(mm) - 1) :
          /\ mm[i] = last
          /\ mm[i - 1].Type = mm[i + 1].Type
          /\ mm[i - 1].Type # last.Type
          /\ End(mm[i - 1]) = last.Start
          /\ End(last) = mm[i + 1].Start
    /\ \E i \in 1..(Len(mm) - 1) :
          mm[i].Type = mm[i + 1].Type /\ End(mm[i]) = mm[i + 1].Start

\* C5: ToUEFIPayloadMemoryMap returns one entry per map entry, in map order,
\* with the same Start, End = Start + Size - 1 and the type code of the
\* table RAM=1, Default=2, ACPI=3, NVS=4, Reserved=5, 5 for any other type.
C5_Projection ==
    op = "project" =>
        /\ Len(result) = Len(mm)
        /\ \A i \in 1..Len(mm) :
              /\ result[i].Start = mm[i].Start
              /\ result[i].End = mm[i].Start + mm[i].Size - 1
              /\ result[i].Type =
                    (CASE mm[i].Type = "System RAM" -> 1
                       [] mm[i].Type = "Default" -> 2
                       [] mm[i].Type = "ACPI Tables" -> 3
                       [] mm[i].Type = "ACPI Non-volatile Storage" -> 4
                       [] mm[i].Type = "Reserved" -> 5
                       [] OTHER -> 5)

\* A projected map of several entries, one of them of a type outside the
\* table and one reaching the largest address.
C5_Witness ==
    /\ op = "project"
    /\ Len(result) >= 3
    /\ \E i \in 1..Len(mm) : mm[i].Type = Bogus /\ result[i].Type = 5
    /\ \E i \in 1..Len(mm) : mm[i].Type = RangeACPI /\ result[i].Type = 3
    /\ result[Len(result)].End = MaxAddr

\* C9: FilterByType(t) returns the ranges of exactly the entries of type t,
\* each once, in map order (ascending start), none of another type's
\* entries, and leaves the map as it was.
C9_FilterByType ==
    [][op' = "filter" =>
        LET idx == {i \in 1..Len(mm) : mm[i].Type = arg'} IN
        /\ mm' = mm
        /\ Len(result') = Cardinality(idx)
        /\ \A i \in idx :
              result'[Cardinality({j \in idx : j <= i})] = RangeOf(mm[i])
        /\ \A k \in 1..(Len(result') - 1) : result'[k].Start < result'[k + 1].Start
        /\ \A k \in 1..Len(result'), i \in 1..Len(mm) :
              result'[k] = RangeOf(mm[i]) => mm[i].Type = arg'
      ]_vars

\* A filter that returned two ranges and left an entry of another type
\* lying between them out.
C9_Witness ==
    /\ op = "filter"
    /\ Len(result) = 2
    /\ \E i \in 1..Len(mm) :
          /\ mm[i].Type # arg
          /\ result[1].Start < mm[i].Start
          /\ mm[i].Start < result[2].Start

\* C4: in the maps of the device-tree and memblock adapters no Reserved
\* range is in the map while RAM ranges are still being placed, every
\* address of a reservation the adapter read is Reserved and under no RAM
\* entry, and every RAM address under no reservation is RAM.
C4_ReservedOverRAM ==
    (adapter \in {"fdt", "memblock"} /\ pc # "failed") =>
        /\ pc = "memory" =>
              /\ resvCov = {}
              /\ \A i \in 1..Len(mm) : mm[i].Type # RangeReserved
        /\ \A a \in resvCov : TypesAt(mm, a) = {RangeReserved}
        /\ \A a \in ramCov \ resvCov : TypesAt(mm, a) = {RangeRAM}

\* A returned device-tree map in which a reservation lies inside RAM, with
\* RAM left on both sides of it.
C4_Witness ==
    /\ adapter = "fdt"
    /\ pc = "done"
    /\ resvCov # {}
    /\ resvCov \subseteq ramCov
    /\ \E i \in 2..(Len(mm) - 1) :
          /\ mm[i].Type = RangeReserved
          /\ mm[i - 1].Type = RangeRAM
          /\ mm[i + 1].Type = RangeRAM

\* C6: every entry of a map produced by any adapter has a type in the
\* closed set {RAM, Default, ACPI, NVS, Reserved}.
C6_ClosedTypes ==
    \A i \in 1..Len(mm) :
        mm[i].Type \in {"System RAM", "Default", "ACPI Tables",
                        "ACPI Non-volatile Storage", "Reserved"}

\* C6, amended: the device-tree and memblock adapters store RAM and
\* Reserved only; the sysfs adapter turns a label outside its table into
\* Reserved and does not fail on it (a directory with no type file keeps
\* the empty type); the iomem adapter turns "reserved" into Reserved and
\* stores every other label verbatim.
C6_TypesByAdapter ==
    /\ adapter \in {"fdt", "memblock"} =>
          \A i \in 1..Len(mm) : mm[i].Type \in {"System RAM", "Reserved"}
    /\ adapter = "efi" =>
          /\ \A d \in Dirs :
                IF "type" \in ranges[d].seen
                THEN ranges[d].typ =
                        (IF ranges[d].label \in {"System RAM", "Default", "ACPI Tables",
                                                 "ACPI Non-volatile Storage", "Reserved"}
                         THEN ranges[d].label ELSE "Reserved")
                ELSE ranges[d].typ = ""
          /\ pc = "done" =>
                /\ Len(mm) = Cardinality(EFIKeys)
                /\ \A i \in 1..Len(mm) : \E d \in EFIKeys : mm[i].Type = ranges[d].typ
          /\ pc = "failed" => err \in {"parse", "unexpected file", "read", "walk"}
    /\ (adapter = "iomem" /\ pc # "failed") =>
          /\ \A i \in 1..Len(mm) : mm[i].Type \in {"System RAM", "Reserved", Bogus}
          /\ (inp # NoInput /\ op = "insert") =>
                last.Type = (IF inp.typ = "reserved" THEN "Reserved" ELSE inp.typ)

\* A returned sysfs map with an entry that is Reserved because the label of
\* its type file was not in the table.
C6_Witness ==
    /\ adapter = "efi"
    /\ pc = "done"
    /\ \E d \in Dirs :
          /\ ranges[d].seen = {"start", "end", "type"}
          /\ ranges[d].label = Bogus
          /\ \E i \in 1..Len(mm) :
                mm[i].Type = RangeReserved /\ mm[i].Start = ranges[d].start

\* C7: in the iomem and memblock adapters the map is at every point the
\* map built from the usable lines read so far, in their order (a line
\* that is malformed or has start = end adds nothing), and only a failing
\* read makes the adapter fail.
C7_SkippedLines ==
    adapter \in {"iomem", "memblock"} =>
        /\ pc # "failed" => (mm = ref /\ err = "")
        /\ pc = "failed" => err = "scan"
        /\ (inp # NoInput /\ ~Usable(inp)) => op = "skip"

\* An iomem run that read a usable line, then a line with start = end, then
\* another usable line, and returned a map of the two usable ones.
C7_Witness ==
    /\ adapter = "iomem"
    /\ pc = "done"
    /\ nread = 3
    /\ Len(mm) = 2
    /\ mm[2] = last
    /\ Usable(inp)

\* C8: every adapter that reads an inclusive end stores
\* {start, size: end - start + 1} for every pair start <= end.
C8_AllInclusivePairs ==
    /\ (adapter \in {"iomem", "memblock"} /\ inp # NoInput /\ pc # "failed"
        /\ inp.nels = 2 /\ inp.naddrs = 2 /\ inp.start.ok /\ inp.end.ok
        /\ inp.start.v <= inp.end.v) =>
          \E i \in 1..Len(mm) :
              mm[i].Start = inp.start.v /\ mm[i].Size = inp.end.v - inp.start.v + 1
    /\ (adapter = "efi" /\ pc = "done") =>
          \A d \in Dirs :
              ({"start", "end"} \subseteq ranges[d].seen
               /\ ranges[d].start <= ranges[d].end) =>
                 \E i \in 1..Len(mm) :
                     /\ mm[i].Start = ranges[d].start
                     /\ mm[i].Size = ranges[d].end - ranges[d].start + 1

\* C8, amended: the sysfs adapter stores {start, size: end - start + 1} for
\* every pair start <= end, the iomem and memblock adapters for every pair
\* start < end (start = end stores nothing), the largest address included
\* as end; the one exception is the pair (0, largest address), whose size
\* does not fit the width and is stored as 0.
C8_InclusiveEnd ==
    /\ (adapter \in {"iomem", "memblock"} /\ inp # NoInput /\ pc # "failed"
        /\ inp.nels = 2 /\ inp.naddrs = 2 /\ inp.start.ok /\ inp.end.ok
        /\ inp.start.v <= inp.end.v) =>
          IF inp.start.v = inp.end.v
          THEN op = "skip"
          ELSE /\ op = "insert"
               /\ last.Start = inp.start.v
               /\ last.Size = (IF inp.start.v = 0 /\ inp.end.v = MaxAddr
                               THEN 0 ELSE inp.end.v - inp.start.v + 1)
               /\ \E i \in 1..Len(mm) : mm[i] = last
    /\ (adapter = "efi" /\ pc = "done") =>
          \A d \in Dirs :
              ({"start", "end"} \subseteq ranges[d].seen
               /\ ranges[d].start <= ranges[d].end) =>
                 \E i \in 1..Len(mm) :
                     /\ mm[i].Start = ranges[d].start
                     /\ mm[i].Size = (IF ranges[d].start = 0 /\ ranges[d].end = MaxAddr
                                      THEN 0
                                      ELSE ranges[d].end - ranges[d].start + 1)

\* An iomem line from address 1 to the largest address, stored with the
\* size that reaches the end of the address space.
C8_Witness ==
    /\ adapter = "iomem"
    /\ inp # NoInput
    /\ Usable(inp)
    /\ inp.start.v = 1
    /\ inp.end.v = MaxAddr
    /\ last.Start = 1
    /\ last.Size = MaxAddr
    /\ \E i \in 1..Len(mm) : mm[i] = last

\* C10: every entry stored in a MemoryMap has size > 0.
C10_NoEmptyEntry ==
    \A i \in 1..Len(mm) : mm[i].Size > 0

C12_ReturnedMapInvariants ==
    (adapter \in Adapters /\ pc = "done") =>
        /\ \A i \in 1..(Len(mm) - 1) : mm[i].Start <= mm[i + 1].Start
        /\ NonOverlapping(mm)

\* C13: the map the sysfs adapter returns holds one entry for each entry
\* directory whose start, end and type files were all read, built from the
\* three values, and no entry for any other directory, in whatever order
\* the files were visited.
C13_OnlyCompleteDirs ==
    (adapter = "efi" /\ pc = "done") =>
        LET complete == {d \in Dirs : ranges[d].seen = {"start", "end", "type"}}
            entry(d) == TypedRange(EFIRange(ranges[d]), ranges[d].typ)
        IN  /\ Len(mm) = Cardinality(complete)
            /\ \A i \in 1..Len(mm) : \E d \in complete : mm[i] = entry(d)
            /\ \A d \in complete : \E i \in 1..Len(mm) : mm[i] = entry(d)

====
